---- MODULE Spec2Model ----
(***************************************************************************)
(* Model of shub_workflow.graph.GraphManager                               *)
(* (src/shub_workflow/graph/__init__.py): the pending/running maps, the    *)
(* resource ledger, the mutable jobs graph, the tick workflow_loop with    *)
(* check_running_jobs and run_pending_jobs, parallel fan-out expansion in  *)
(* _add_pending_job, and the resume setup of on_start.                     *)
(*                                                                         *)
(* Python dicts are TLA+ functions whose DOMAIN is the set of keys that    *)
(* are present; Python lists are sequences; Python sets are sets.          *)
(* Fraction amounts are normalised pairs <<numerator, denominator>>.       *)
(***************************************************************************)
EXTENDS Integers, Sequences, FiniteSets, TLC

VARIABLES
    pc,                 \* "init" | "loop" | "done" | "error": position of the driver
    args,               \* parsed command line (self.args)
    env,                \* what the backend knows of the resumed manager job
    jobs_graph,         \* self.jobs_graph: job key -> configuration dict
    declared,           \* history: the jobs graph as it was declared
    pending_jobs,       \* self.__pending_jobs: job key -> pending record
    running_jobs,       \* self.__running_jobs: ordered <<job key, jobid>> pairs
    available_resources,\* self._available_resources: resource -> amount
    acquired_resources, \* self._acquired_resources: resource -> list of <<job, amount>>
    parallelization,    \* self.parallelization (class attribute), 0 for None
    now,                \* time() - self.__start_time, in whole seconds
    err,                \* the exception that ended the program, or "none"
    errmsg,             \* the pairs listed by the dependency-cycle message
    submitted,          \* history: every call of run_job and what it answered
    finished,           \* history: job keys check_running_jobs saw finished
    last,               \* history: what the latest handler did
    tick                \* history: the parity of the calls of workflow_loop(), and
                        \* whether the latest saw a job finished

vars == <<pc, args, env, jobs_graph, declared, pending_jobs, running_jobs,
          available_resources, acquired_resources, parallelization, now,
          err, errmsg,
          submitted, finished, last, tick>>

----------------------------------------------------------------------------
(* Bounds of the model.                                                    *)

\* the clock stops advancing here
MaxTime == 2

\* the longest recorded command line of a resumed job, in options
MaxCmdLen == 2

\* the largest retries a task is declared with
MaxRetries == 2

\* the largest --max-running-jobs
MaxCap == 2

----------------------------------------------------------------------------
(* Python values.                                                          *)

\* None, for string-valued things (origin, jobid, a regex group)
None == "None"

\* conf['wait_time'] is None
NoWaitTime == -1

\* args.max_running_jobs not given (None or 0: "or float('inf')")
NoMax == 0

\* dict.get(key, default)
Get(d, key, default) == IF key \in DOMAIN d THEN d[key] ELSE default

\* d[key] = value on a dict (adds the key when absent)
Put(d, key, value) == [k \in DOMAIN d \cup {key} |-> IF k = key THEN value ELSE d[k]]

\* del d[key] / d.pop(key)
Del(d, key) == [k \in DOMAIN d \ {key} |-> d[k]]

\* x in list
InList(x, list) == \E i \in 1..Len(list) : list[i] = x

\* set(list)
ToSet(list) == {list[i] : i \in 1..Len(list)}

\* list.index(x)
FirstIndex(list, x) ==
    CHOOSE j \in 1..Len(list) : list[j] = x /\ \A k \in 1..(j-1) : list[k] # x

\* del list[i]
RemoveAt(list, i) == SubSeq(list, 1, i-1) \o SubSeq(list, i+1, Len(list))

\* list.remove(x): drops the first element equal to x
ListRemove(list, x) ==
    IF InList(x, list) THEN RemoveAt(list, FirstIndex(list, x)) ELSE list

RECURSIVE GCD(_, _)
GCD(a, b) == IF b = 0 THEN a ELSE GCD(b, a % b)

Abs(n) == IF n < 0 THEN -n ELSE n

Reduce(n, d, g) == IF n = 0 THEN <<0, 1>> ELSE <<n \div g, d \div g>>

\* fractions.Fraction(n, d), normalised; an int n is Fraction(n, 1)
Fraction(n, d) == Reduce(n, d, GCD(Abs(n), d))

FAdd(a, b) == Fraction(a[1] * b[2] + b[1] * a[2], a[2] * b[2])
FSub(a, b) == Fraction(a[1] * b[2] - b[1] * a[2], a[2] * b[2])
FLess(a, b) == a[1] * b[2] < b[1] * a[2]
\* Fraction(amount, n) for an amount that is already a Fraction
FDiv(a, n) == Fraction(a[1], a[2] * n)

----------------------------------------------------------------------------
(* Job keys and their order.                                               *)

\* the task ids the graphs below declare, in Python's string order
TaskOrder == <<"A", "B", "C", "D", "M", "N", "P", "Q", "U", "V", "X", "Y", "Z">>

TaskNames == ToSet(TaskOrder)

\* "%s_%i" % (job, i)
UnitName(job, i) == job \o "_" \o ToString(i)

\* the position of a key in sorted() order, as one number: a task id sorts
\* right before its own units ("P" < "P_0" < "P_1" < "Q"), units by index
\* (below 10)
SortKey(key) ==
    IF key \in TaskNames
    THEN 11 * (CHOOSE r \in 1..Len(TaskOrder) : TaskOrder[r] = key)
    ELSE CHOOSE v \in 1..(11 * Len(TaskOrder) + 10) :
            \E r \in 1..Len(TaskOrder), i \in 0..9 :
                UnitName(TaskOrder[r], i) = key /\ v = 11 * r + i + 1

KeyLess(a, b) == SortKey(a) < SortKey(b)

\* min(keys)
MinKey(keys) == CHOOSE k \in keys : \A o \in keys \ {k} : KeyLess(k, o)

\* sorted(keys)
RECURSIVE Sorted(_)
SortedFrom(keys, m) == <<m>> \o Sorted(keys \ {m})
Sorted(keys) == IF keys = {} THEN <<>> ELSE SortedFrom(keys, MinKey(keys))

----------------------------------------------------------------------------
(* The state the handlers work on, as one record.                          *)

Cur ==
    [jobs_graph |-> jobs_graph, pending_jobs |-> pending_jobs,
     running_jobs |-> running_jobs,
     available_resources |-> available_resources,
     acquired_resources |-> acquired_resources,
     err |-> err, errmsg |-> errmsg,
     submitted |-> submitted, finished |-> finished,
     started |-> <<>>, passB |-> FALSE, afterA |-> <<>>, before |-> <<>>]

\* an exception or argparser.error(): the first one ends the handler
Fail(s, e) == IF s.err = "none" THEN [s EXCEPT !.err = e] ELSE s

RunningKeys(s) == {s.running_jobs[i][1] : i \in 1..Len(s.running_jobs)}

\* self.__running_jobs[job] = jobid: an odict keeps the position of a key it has
RunningPut(running, job, jobid) ==
    IF \E i \in 1..Len(running) : running[i][1] = job
    THEN [i \in 1..Len(running) |->
             IF running[i][1] = job THEN <<job, jobid>> ELSE running[i]]
    ELSE Append(running, <<job, jobid>>)

\* self.__running_jobs.pop(job)
RunningPop(running, job) == SelectSeq(running, LAMBDA e : e[1] # job)

----------------------------------------------------------------------------
(* The resource ledger.                                                    *)

\* the resource sets of a job configuration, amounts as Fractions
RequiredResources(conf) == Get(conf, "required_resources", <<>>)

\* every <<resource, amount>> some resource set of the graph asks for
Asks(graph) ==
    UNION {UNION {{<<res, RequiredResources(graph[j])[i][res]>> :
                       res \in DOMAIN RequiredResources(graph[j])[i]} :
                     i \in 1..Len(RequiredResources(graph[j]))} :
              j \in DOMAIN graph}

\* the largest of a set of amounts
MaxAmount(amounts) == CHOOSE a \in amounts : \A b \in amounts : ~FLess(a, b)

FillFrom(asks) ==
    [res \in {a[1] : a \in {b \in asks : FLess(<<0, 1>>, b[2])}} |->
        MaxAmount({a[2] : a \in {b \in asks : b[1] = res}})]

\* _fill_available_resources: starting from {}, a resource is raised to every
\* larger amount a set asks for, so it ends at the largest amount asked (and
\* is not entered at all when no set asks more than 0 of it)
FillAvailableResources(graph) == FillFrom(Asks(graph))

\* SetFits with the comparison of line 394 forgotten
SetFitsAlways(s, resources) == TRUE

\* whether every resource of the set is available in the amount asked
\* (the inner for loop of _try_acquire_resources finding nothing to break on)
SetFits(s, resources) ==
    \A res \in DOMAIN resources :
        ~FLess(s.available_resources[res], resources[res])

\* TakeSet without line 400: the amounts are taken and recorded nowhere
TakeSetUnrecorded(s, job, resources) ==
    [s EXCEPT
        !.available_resources =
            [res \in DOMAIN @ |->
                IF res \in DOMAIN resources
                THEN FSub(@[res], resources[res]) ELSE @[res]]]

\* the else branch of the inner for loop: take the whole set
TakeSet(s, job, resources) ==
    [s EXCEPT
        !.available_resources =
            [res \in DOMAIN @ |->
                IF res \in DOMAIN resources
                THEN FSub(@[res], resources[res]) ELSE @[res]],
        !.acquired_resources =
            [res \in DOMAIN @ \cup DOMAIN resources |->
                IF res \in DOMAIN resources
                THEN Append(Get(@, res, <<>>), <<job, resources[res]>>)
                ELSE @[res]]]

\* FirstFit taking the last set that fits instead of the first
FirstFitLast(s, sets) ==
    IF \E i \in 1..Len(sets) : SetFits(s, sets[i])
    THEN CHOOSE i \in 1..Len(sets) :
            SetFits(s, sets[i]) /\ \A j \in (i+1)..Len(sets) : ~SetFits(s, sets[j])
    ELSE 0

\* the index of the first resource set that fits, 0 when none does
FirstFit(s, sets) ==
    IF \E i \in 1..Len(sets) : SetFits(s, sets[i])
    THEN CHOOSE i \in 1..Len(sets) :
            SetFits(s, sets[i]) /\ \A j \in 1..(i-1) : ~SetFits(s, sets[j])
    ELSE 0

\* the for loop of _try_acquire_resources over the sets, fit being the first
\* set that fits: [ok |-> its result, s |-> the state after]
AcquireFirstFit(s, job, sets, fit) ==
    IF fit = 0 THEN [ok |-> sets = <<>>, s |-> s]
    ELSE [ok |-> TRUE, s |-> TakeSet(s, job, sets[fit])]

AcquireFrom(s, job, sets) == AcquireFirstFit(s, job, sets, FirstFit(s, sets))

\* _try_acquire_resources(job); get_job() ends the program when the job is
\* not in the graph
TryAcquireResources(s, job) ==
    IF job \notin DOMAIN s.jobs_graph
    THEN [ok |-> FALSE, s |-> Fail(s, "invalid_job")]
    ELSE AcquireFrom(s, job, RequiredResources(s.jobs_graph[job]))

\* the inner loop of _release_resources over one list: a Python for loop over
\* a list it removes from moves on by index, so the entry that slides into a
\* removed entry's place is skipped; the result is <<list, available amount>>
RECURSIVE ReleaseList(_, _, _, _)
ReleaseList(acquired, idx, amount, job) ==
    IF idx > Len(acquired) THEN <<acquired, amount>>
    ELSE IF acquired[idx][1] = job
         THEN ReleaseList(ListRemove(acquired, acquired[idx]), idx + 1,
                          FAdd(amount, acquired[idx][2]), job)
         ELSE ReleaseList(acquired, idx + 1, amount, job)

Released(s, out) ==
    [s EXCEPT
        !.available_resources =
            [res \in DOMAIN @ |-> IF res \in DOMAIN out THEN out[res][2] ELSE @[res]],
        !.acquired_resources = [res \in DOMAIN @ |-> out[res][1]]]

\* _release_resources(job)
ReleaseResources(s, job) ==
    Released(s, [res \in DOMAIN s.acquired_resources |->
                    ReleaseList(s.acquired_resources[res], 1,
                                s.available_resources[res], job)])

----------------------------------------------------------------------------
(* _add_pending_job and the parallel fan-out.                              *)

\* the order in which the keys of an on_finish dict are visited
OutcomeKeyOrder == <<"default", "failed", "finished">>

\* conf['wait_for'].append(unit) after conf.setdefault('wait_for', [])
WaitForSetdefaultAppend(conf, unit) ==
    Put(conf, "wait_for", Append(Get(conf, "wait_for", <<>>), unit))

\* conf.get('wait_for', []).append(unit): lost when the key is absent
WaitForGetAppend(conf, unit) ==
    IF "wait_for" \in DOMAIN conf
    THEN [conf EXCEPT !.wait_for = Append(@, unit)] ELSE conf

\* self.__pending_jobs[key]['wait_for'].add(unit), if key is pending
PendingWaitAdd(pending, key, unit) ==
    IF key \in DOMAIN pending
    THEN [pending EXCEPT ![key].wait_for = @ \cup {unit}] ELSE pending

\* lines 185-189: the loop that reuses the name i and formats job, not
\* nextjob; get_job() ends the program on the first unit not in the graph
RECURSIVE AddToUnits(_, _, _, _, _)
AddToUnits(s, job, job_unit, i, n) ==
    IF i >= n \/ s.err # "none" THEN s
    ELSE IF UnitName(job, i) \notin DOMAIN s.jobs_graph
    THEN Fail(s, "invalid_job")
    ELSE AddToUnits(
            [s EXCEPT
                !.jobs_graph[UnitName(job, i)] = WaitForGetAppend(@, job_unit),
                !.pending_jobs = PendingWaitAdd(@, UnitName(job, i), job_unit)],
            job, job_unit, i + 1, n)

\* lines 185-190 done on state s2: the inner loop left i at n - 1, and
\* nextjobs.remove(nextjob) is reached when get_job() did not end the program
AfterAddToUnits(ls, s2, key, nextjob, n) ==
    [s |-> s2,
     conf |-> IF s2.err = "none"
              THEN [ls.conf EXCEPT !.on_finish[key] = ListRemove(@, nextjob)]
              ELSE ls.conf,
     i |-> n - 1]

\* MoveTarget without lines 181-189: the unit loses its finish target and
\* the target does not wait for the unit
MoveTargetStripOnly(ls, job, job_unit, key, nextjob, n) ==
    IF nextjob = "retry" THEN ls
    ELSE [ls EXCEPT !.conf.on_finish[key] = ListRemove(@, nextjob)]

\* lines 179-190 for one next job of unit job_unit: ls is [s, conf, i], the
\* state, the unit's configuration and the loop variable i
MoveTarget(ls, job, job_unit, key, nextjob, n) ==
    IF nextjob = "retry" THEN ls
    ELSE IF nextjob \in DOMAIN ls.s.jobs_graph
    THEN [ls EXCEPT
            !.s.jobs_graph[nextjob] = WaitForSetdefaultAppend(@, job_unit),
            !.s.pending_jobs = PendingWaitAdd(@, nextjob, job_unit),
            !.conf.on_finish[key] = ListRemove(@, nextjob)]
    ELSE AfterAddToUnits(ls, AddToUnits(ls.s, job, job_unit, 0, n), key, nextjob, n)

\* line 178: for nextjob in copy(nextjobs)
RECURSIVE MoveTargets(_, _, _, _, _, _, _)
MoveTargets(ls, job, job_unit, key, nextjobs, idx, n) ==
    IF idx > Len(nextjobs) \/ ls.s.err # "none" THEN ls
    ELSE MoveTargets(MoveTarget(ls, job, job_unit, key, nextjobs[idx], n),
                     job, job_unit, key, nextjobs, idx + 1, n)

\* lines 176-190: every on_finish list of the unit, "if i != 0" read anew
\* for each list
RECURSIVE StripOnFinish(_, _, _, _, _)
StripOnFinish(ls, job, job_unit, k, n) ==
    IF k > Len(OutcomeKeyOrder) \/ ls.s.err # "none" THEN ls
    ELSE StripOnFinish(
            IF OutcomeKeyOrder[k] \in DOMAIN Get(ls.conf, "on_finish", <<>>) /\ ls.i # 0
            THEN MoveTargets(ls, job, job_unit, OutcomeKeyOrder[k],
                             ls.conf.on_finish[OutcomeKeyOrder[k]], 1, n)
            ELSE ls,
            job, job_unit, k + 1, n)

\* parallel_arg.replace('%d', '%d' % i): the template is a list of pieces
ParallelArg(template, i) ==
    [k \in 1..Len(template) |-> IF template[k] = "%d" THEN ToString(i) ELSE template[k]]

\* lines 152-171: every amount of every resource set becomes Fraction(amount, n)
SplitResources(sets, n) ==
    [k \in 1..Len(sets) |-> [res \in DOMAIN sets[k] |-> FDiv(sets[k][res], n)]]

\* lines 173-175: parg goes to init_args, and to retry_args if there are any
WithParallelArg(conf, parg) ==
    [k \in DOMAIN conf \cup {"init_args"} |->
        IF k = "init_args" THEN Append(Get(conf, "init_args", <<>>), parg)
        ELSE IF k = "retry_args" THEN Append(conf[k], parg)
        ELSE conf[k]]

\* lines 149-175: the configuration of unit i before its on_finish is stripped
JobUnitConf(basejobconf, parallel_arg, i, n) ==
    WithParallelArg(
        Put(basejobconf, "required_resources",
            SplitResources(RequiredResources(basejobconf), n)),
        ParallelArg(parallel_arg, i))

\* lines 191-199: the unit enters the graph and the pending jobs
AddUnit(ls, job, job_unit, wait_for, retries, wait_time) ==
    IF ls.s.err # "none" THEN ls.s
    ELSE [ls.s EXCEPT
            !.jobs_graph = Put(@, job_unit, ls.conf),
            !.pending_jobs = Put(@, job_unit,
                [wait_for |-> ToSet(wait_for),
                 retries |-> retries,
                 required_resources |-> RequiredResources(ls.conf),
                 origin |-> job,
                 wait_time |-> wait_time])]

\* lines 148-199: the units, one after the other
RECURSIVE ExpandUnits(_, _, _, _, _, _, _, _, _)
ExpandUnits(s, job, basejobconf, parallel_arg, wait_for, retries, wait_time, i, n) ==
    IF i >= n \/ s.err # "none" THEN s
    ELSE ExpandUnits(
            AddUnit(StripOnFinish(
                        [s |-> s,
                         conf |-> JobUnitConf(basejobconf, parallel_arg, i, n),
                         i |-> i],
                        job, UnitName(job, i), 1, n),
                    job, UnitName(job, i), wait_for, retries, wait_time),
            job, basejobconf, parallel_arg, wait_for, retries, wait_time, i + 1, n)

\* oconf['wait_for'].append(unit) for every unit
RECURSIVE AppendUnits(_, _, _, _)
AppendUnits(list, job, i, n) ==
    IF i >= n THEN list ELSE AppendUnits(Append(list, UnitName(job, i)), job, i + 1, n)

\* job in oconf.get('wait_for', [])
WaitsFor(graph, other, job) ==
    other \in DOMAIN graph /\ InList(job, Get(graph[other], "wait_for", <<>>))

\* lines 200-209: every task that waited for job now waits for its units
ReplaceByUnits(s, job, n) ==
    IF s.err # "none" THEN s
    ELSE [s EXCEPT
            !.jobs_graph =
                [other \in DOMAIN @ |->
                    IF WaitsFor(s.jobs_graph, other, job)
                    THEN [@[other] EXCEPT
                            !.wait_for = AppendUnits(ListRemove(@, job), job, 0, n)]
                    ELSE @[other]],
            !.pending_jobs =
                [other \in DOMAIN @ |->
                    IF WaitsFor(s.jobs_graph, other, job)
                    THEN [@[other] EXCEPT
                            !.wait_for = (@ \ {job})
                                         \cup {UnitName(job, i) : i \in 0..(n-1)}]
                    ELSE @[other]]]

\* lines 146-209: the job has a parallel_arg, n units replace it
Parallelize(s, job, basejobconf, parallel_arg, wait_for, retries, n) ==
    ReplaceByUnits(
        ExpandUnits([s EXCEPT !.jobs_graph = Del(@, job)], job, basejobconf,
                    parallel_arg, wait_for, retries,
                    Get(basejobconf, "wait_time", NoWaitTime), 0, n),
        job, n)

\* AddPlain with the wait_for of line 212 forgotten
AddPlainNoWait(s, job, basejobconf, wait_for, retries) ==
    [s EXCEPT
        !.jobs_graph[job] = basejobconf,
        !.pending_jobs = Put(@, job,
            [wait_for |-> {},
             retries |-> retries,
             required_resources |-> RequiredResources(basejobconf),
             wait_time |-> Get(basejobconf, "wait_time", NoWaitTime)])]

\* lines 211-217: the job goes pending as it is
AddPlain(s, job, basejobconf, wait_for, retries) ==
    [s EXCEPT
        !.jobs_graph[job] = basejobconf,
        !.pending_jobs = Put(@, job,
            [wait_for |-> ToSet(wait_for),
             retries |-> retries,
             required_resources |-> RequiredResources(basejobconf),
             wait_time |-> Get(basejobconf, "wait_time", NoWaitTime)])]

\* _add_pending_job(job, wait_for, retries); n is self.parallelization
AddPendingJob(s, job, wait_for, retries, n) ==
    IF s.err # "none" THEN s
    ELSE IF job \notin DOMAIN s.jobs_graph THEN Fail(s, "invalid_job")
    ELSE IF Get(s.jobs_graph[job], "parallel_arg", <<>>) # <<>>
    THEN Parallelize(s, job, Del(s.jobs_graph[job], "parallel_arg"),
                     s.jobs_graph[job].parallel_arg, wait_for, retries, n)
    ELSE AddPlain(s, job, Del(s.jobs_graph[job], "parallel_arg"), wait_for, retries)

\* _add_initial_pending_job(job)
AddInitialPendingJob(s, job, n) ==
    IF job \notin DOMAIN s.jobs_graph THEN Fail(s, "invalid_job")
    ELSE AddPendingJob(s, job, Get(s.jobs_graph[job], "wait_for", <<>>), 0, n)

----------------------------------------------------------------------------
(* Running a job.                                                          *)

\* what the backend (schedule_script, or a task's own run) answers: a job
\* id, None, or an exception
Scheduled == "jobid"
Raised == "raise"

\* get_command_line(job, retries)
GetCommandLine(conf, retries) ==
    IF retries # 0
    THEN <<conf.command>> \o Get(conf, "retry_args", Get(conf, "init_args", <<>>))
    ELSE <<conf.command>> \o Get(conf, "init_args", <<>>)

\* MustWaitTime with the test of line 290 forgotten
MustWaitTimeNever(s, job, t) == FALSE

\* _must_wait_time(job) at time() = start + t
MustWaitTime(s, job, t) ==
    /\ s.pending_jobs[job].wait_time # NoWaitTime
    /\ s.pending_jobs[job].wait_time - t > 0

\* AtMaxRunning with the tests of lines 311 and 334 forgotten
AtMaxRunningNever(s, max_running_jobs) == FALSE

\* len(self.__running_jobs) >= max_running_jobs, float('inf') when not given
AtMaxRunning(s, max_running_jobs) ==
    max_running_jobs # NoMax /\ Len(s.running_jobs) >= max_running_jobs

\* what run_pending_jobs knows at some point
Snapshot(s) ==
    [pending_jobs |-> s.pending_jobs, running_jobs |-> s.running_jobs,
     available_resources |-> s.available_resources,
     acquired_resources |-> s.acquired_resources]

\* the state right before the resources of a job are tried is kept
WithBefore(s) == [s EXCEPT !.before = Snapshot(s)]

\* run_job(job, retries) was called and answered
Submitted(s, job, answer) ==
    [s EXCEPT
        !.submitted = Append(@,
            [job |-> job, retries |-> s.pending_jobs[job].retries,
             cmd |-> GetCommandLine(s.jobs_graph[job], s.pending_jobs[job].retries),
             jobid |-> answer])]

\* lines 317-323 and 343-349: the except branch, or the job goes running
\* under what run_job returned
Started(s, job, answer, pass) ==
    IF answer = Raised
    THEN Fail(ReleaseResources(s, job), "submit_raised")
    ELSE [s EXCEPT
            !.pending_jobs = Del(@, job),
            !.running_jobs = RunningPut(@, job, answer),
            !.started = Append(@, <<job, pass>>)]

\* lines 316-323 and 342-349: acq is what _try_acquire_resources gave
Admit(acq, job, answer, pass) ==
    IF acq.ok /\ acq.s.err = "none"
    THEN Started(Submitted(acq.s, job, answer), job, answer, pass)
    ELSE acq.s

\* line 315: not conf['wait_for'] and not self._must_wait_time(job), the
\* conditions read before the resources are tried
CanRunA(s, job, t) ==
    s.pending_jobs[job].wait_for = {} /\ ~MustWaitTime(s, job, t)

\* lines 310-323, the normal mode, over the sorted keys
RECURSIVE PassA(_, _, _, _, _, _)
PassA(s, keys, idx, answers, max_running_jobs, t) ==
    IF idx > Len(keys) \/ s.err # "none" \/ AtMaxRunning(s, max_running_jobs) THEN s
    ELSE PassA(IF CanRunA(s, keys[idx], t)
               THEN Admit(TryAcquireResources(WithBefore(s), keys[idx]),
                          keys[idx], answers[keys[idx]], "A")
               ELSE s,
               keys, idx + 1, answers, max_running_jobs, t)

\* the message of the RuntimeError of lines 357-360
CycleMessage(s, keys) ==
    [i \in 1..Len(keys) |-> <<keys[i], Sorted(s.pending_jobs[keys[i]].wait_for)>>]

\* AfterPassB without lines 357-360: the second mode returns in silence
AfterPassBSilent(s) == s

\* lines 353-360: after the loop of the second mode
AfterPassB(s) ==
    IF Len(s.running_jobs) > 0 THEN s
    ELSE [Fail(s, "dependency_cycle") EXCEPT
            !.errmsg = CycleMessage(s, Sorted(DOMAIN s.pending_jobs))]

\* lines 337-339, the conditions read before the resources are tried
CanRunB(s, job, origin_job) ==
    /\ \A w \in s.pending_jobs[job].wait_for : w \notin DOMAIN s.pending_jobs
    /\ (origin_job = None \/ Get(s.pending_jobs[job], "origin", None) = origin_job)

\* lines 333-351, the "skip unknown deps" mode: s1 is the state after the
\* job keys[idx] was handled, origin_job what line 341 assigned
RECURSIVE PassB(_, _, _, _, _, _)
PassBNext(s1, keys, idx, origin_job, answers, max_running_jobs) ==
    IF s1.err # "none" THEN s1
    ELSE IF origin_job = None /\ Len(s1.running_jobs) > 0 THEN s1
    ELSE PassB(s1, keys, idx + 1, origin_job, answers, max_running_jobs)

PassB(s, keys, idx, origin_job, answers, max_running_jobs) ==
    IF s.err # "none" THEN s
    ELSE IF idx > Len(keys) \/ AtMaxRunning(s, max_running_jobs) THEN AfterPassB(s)
    ELSE PassBNext(
            IF CanRunB(s, keys[idx], origin_job)
            THEN Admit(TryAcquireResources(WithBefore(s), keys[idx]),
                       keys[idx], answers[keys[idx]], "B")
            ELSE s,
            keys, idx, Get(s.pending_jobs[keys[idx]], "origin", None),
            answers, max_running_jobs)

\* lines 325-327: whether run_pending_jobs returns after the normal mode
ReturnsAfterPassA(s) ==
    \/ DOMAIN s.pending_jobs = {}
    \/ Len(s.running_jobs) > 0
    \/ \E j \in DOMAIN s.pending_jobs : s.pending_jobs[j].wait_time # NoWaitTime

\* lines 325-360: sa is the state the normal mode left
AfterPassA(sa, answers, max_running_jobs) ==
    IF sa.err # "none" \/ ReturnsAfterPassA(sa) THEN sa
    ELSE PassB([sa EXCEPT !.passB = TRUE], Sorted(DOMAIN sa.pending_jobs), 1,
               None, answers, max_running_jobs)

WithAfterA(s) == [s EXCEPT !.afterA = Snapshot(s)]

\* run_pending_jobs()
RunPendingJobs(s, answers, max_running_jobs, t) ==
    AfterPassA(
        WithAfterA(PassA(s, Sorted(DOMAIN s.pending_jobs), 1, answers,
                         max_running_jobs, t)),
        answers, max_running_jobs)

----------------------------------------------------------------------------
(* Completion handling.                                                    *)

\* base_failed_outcomes
base_failed_outcomes ==
    {"failed", "killed by oom", "cancelled", "cancel_timeout",
     "memusage_exceeded", "cancelled (stalled)"}

\* the choice of lines 415-421 in an on_finish dict
NextJobsOf(on_finish, outcome, failed_outcomes) ==
    IF outcome \in DOMAIN on_finish THEN on_finish[outcome]
    ELSE IF outcome \in failed_outcomes THEN Get(on_finish, "failed", <<>>)
    ELSE Get(on_finish, "default", <<>>)

\* GetNextJobs with lines 412-413 forgotten
GetNextJobsAlways(s, job, outcome, only_starting_jobs, failed_outcomes) ==
    NextJobsOf(Get(s.jobs_graph[job], "on_finish", <<>>), outcome, failed_outcomes)

\* _get_next_jobs(job, outcome), for a job that is in the graph
GetNextJobs(s, job, outcome, only_starting_jobs, failed_outcomes) ==
    IF only_starting_jobs THEN <<>>
    ELSE NextJobsOf(Get(s.jobs_graph[job], "on_finish", <<>>), outcome,
                    failed_outcomes)

\* lines 367-371: the finished job leaves every wait_for
DiscardWaitFor(s, job) ==
    [s EXCEPT
        !.pending_jobs =
            [k \in DOMAIN @ |-> [@[k] EXCEPT !.wait_for = @ \ {job}]],
        !.jobs_graph =
            [k \in DOMAIN @ |->
                IF "wait_for" \in DOMAIN @[k]
                THEN [@[k] EXCEPT !.wait_for = ListRemove(@, job)]
                ELSE @[k]]]

\* RetryCounted with line 378 forgotten
RetryNotCounted(s1, job) == s1

\* line 378: jobconf['retries'] -= 1
RetryCounted(s1, job) ==
    IF s1.err # "none" THEN s1 ELSE [s1 EXCEPT !.jobs_graph[job].retries = @ - 1]

\* lines 373-384, for one entry of the next jobs
NextJob(s, job, nextjob, n) ==
    IF nextjob = "retry"
    THEN IF job \notin DOMAIN s.jobs_graph THEN Fail(s, "invalid_job")
         ELSE IF Get(s.jobs_graph[job], "retries", 0) > 0
         THEN RetryCounted(AddPendingJob(s, job, <<>>, 1, n), job)
         ELSE s
    ELSE IF nextjob \in DOMAIN s.pending_jobs THEN s
    ELSE IF nextjob \notin DOMAIN s.jobs_graph THEN Fail(s, "invalid_job")
    ELSE AddPendingJob(s, nextjob, Get(s.jobs_graph[nextjob], "wait_for", <<>>), 0, n)

RECURSIVE NextJobs(_, _, _, _, _)
NextJobs(s, job, nextjobs, idx, n) ==
    IF idx > Len(nextjobs) \/ s.err # "none" THEN s
    ELSE NextJobs(NextJob(s, job, nextjobs[idx], n), job, nextjobs, idx + 1, n)

\* Leaves with line 386 forgotten: the job stays in the running jobs
LeavesStaysRunning(s2, job) ==
    IF s2.err # "none" THEN s2 ELSE ReleaseResources(s2, job)

\* lines 385-386: the job gives its resources back and leaves the running jobs
Leaves(s2, job) ==
    IF s2.err # "none" THEN s2
    ELSE [ReleaseResources(s2, job) EXCEPT !.running_jobs = RunningPop(@, job)]

\* lines 372-386 on the state s1 that lines 367-371 left
Routed(s1, job, outcome, only_starting_jobs, failed_outcomes, n) ==
    IF ~only_starting_jobs /\ job \notin DOMAIN s1.jobs_graph
    THEN Fail(s1, "invalid_job")
    ELSE Leaves(NextJobs(s1, job,
                         GetNextJobs(s1, job, outcome, only_starting_jobs,
                                     failed_outcomes), 1, n),
                job)

SeenFinished(s, job) == [s EXCEPT !.finished = @ \cup {job}]

\* lines 365-386: a running job was seen finished with this outcome
JobFinished(s, job, outcome, only_starting_jobs, failed_outcomes, n) ==
    Routed(SeenFinished(DiscardWaitFor(s, job), job), job, outcome,
           only_starting_jobs, failed_outcomes, n)

\* check_running_jobs(): over list(self.__running_jobs.items()); outcomes
\* gives what is_finished answers for each, None for still running
RECURSIVE CheckRunningJobs(_, _, _, _, _, _, _)
CheckRunningJobs(s, items, idx, outcomes, only_starting_jobs, failed_outcomes, n) ==
    IF idx > Len(items) \/ s.err # "none" THEN s
    ELSE CheckRunningJobs(
            IF outcomes[items[idx][1]] = None THEN s
            ELSE JobFinished(s, items[idx][1], outcomes[items[idx][1]],
                             only_starting_jobs, failed_outcomes, n),
            items, idx + 1, outcomes, only_starting_jobs, failed_outcomes, n)

\* workflow_loop() after check_running_jobs left state s1: the state after,
\* and ret, what it returns
WorkflowLoopResult(s1, answers, max_running_jobs, t) ==
    IF s1.err # "none" THEN [s |-> s1, ret |-> FALSE, ran_pending |-> FALSE]
    ELSE IF DOMAIN s1.pending_jobs # {}
    THEN [s |-> RunPendingJobs(s1, answers, max_running_jobs, t),
          ret |-> TRUE, ran_pending |-> TRUE]
    ELSE [s |-> s1, ret |-> Len(s1.running_jobs) > 0, ran_pending |-> FALSE]

----------------------------------------------------------------------------
(* on_start: the starting jobs and the resume.                             *)

\* an option of a recorded command line is a list of pieces, such as
\* <<"--starting-job", "=", "A">>; this is the string they spell
RECURSIVE Spell(_)
Spell(option) == IF option = <<>> THEN "" ELSE Head(option) \o Spell(Tail(option))

\* whether _STARTING_JOB_RE.match(option) is a match: the pattern
\* "--starting-job(?:=(.+))?" matches at the start of the option, with
\* anything after it
StartingJobMatch(option) == Len(option) >= 1 /\ option[1] = "--starting-job"

\* m.groups()[0] of that match: what follows the "=", None without one
StartingJobGroup(option) ==
    IF Len(option) >= 3 /\ option[2] = "="
    THEN Spell(SubSeq(option, 3, Len(option))) ELSE None

\* lines 75-84 for one option: sj is [starting_jobs, next_option_is_task]
StartingJobOption(sj, option) ==
    IF sj.next_option_is_task
    THEN [sj EXCEPT !.starting_jobs = Append(@, Spell(option))]
    ELSE IF StartingJobMatch(option)
    THEN IF StartingJobMatch(option)
         THEN [sj EXCEPT !.starting_jobs = Append(@, StartingJobGroup(option))]
         ELSE [sj EXCEPT !.next_option_is_task = TRUE]
    ELSE sj

RECURSIVE StartingJobOptions(_, _, _)
StartingJobOptions(sj, job_cmd, idx) ==
    IF idx > Len(job_cmd) THEN sj
    ELSE StartingJobOptions(StartingJobOption(sj, job_cmd[idx]), job_cmd, idx + 1)

\* _get_starting_jobs_from_resumed_job(), over job.metadata.get('job_cmd')
GetStartingJobsFromResumedJob(job_cmd) ==
    StartingJobOptions([starting_jobs |-> <<>>, next_option_is_task |-> FALSE],
                       job_cmd, 1).starting_jobs

\* _maybe_setup_resume(): [ran_tasks, err]; e describes the manager and what
\* the backend lists for the resumed job
RECURSIVE MaybeSetupResume(_, _, _, _)
MaybeSetupResume(a, e, idx, ran_tasks) ==
    IF a.resume_from_jobid = None \/ idx > Len(e.scheduled)
    THEN [ran_tasks |-> ran_tasks, err |-> "none"]
    ELSE IF e.scheduled[idx][1] # e.name
    THEN [ran_tasks |-> ran_tasks, err |-> "assertion"]
    ELSE IF e.scheduled[idx][2] \notin e.tasks
    THEN [ran_tasks |-> ran_tasks, err |-> "key_error"]
    ELSE MaybeSetupResume(a, e, idx + 1, Append(ran_tasks, e.scheduled[idx][2]))

\* the for loop of _setup_starting_jobs(ran_tasks, candidates), which calls
\* itself on the next tasks of a task that ran
RECURSIVE SetupCandidates(_, _, _, _, _, _)
SetupCandidates(s, ran_tasks, candidates, idx, e, n) ==
    IF idx > Len(candidates) \/ s.err # "none" THEN s
    ELSE SetupCandidates(
            IF InList(candidates[idx], ran_tasks)
            THEN SetupCandidates(s, ran_tasks, e.next_tasks[candidates[idx]], 1, e, n)
            ELSE AddInitialPendingJob(s, candidates[idx], n),
            ran_tasks, candidates, idx + 1, e, n)

\* the candidates the outermost _setup_starting_jobs(ran_tasks) works on
StartingCandidates(a, e) ==
    IF a.starting_job # <<>> THEN a.starting_job
    ELSE GetStartingJobsFromResumedJob(e.job_cmd)

\* lines 65-66 of on_start(): r is what _maybe_setup_resume gave
SetupStartingJobs(s1, r, a, e, n) ==
    IF r.err # "none" THEN Fail(s1, r.err)
    ELSE SetupCandidates(s1, r.ran_tasks, StartingCandidates(a, e), 1, e, n)

\* on_start()
OnStartResult(s, a, e, n) ==
    IF DOMAIN s.jobs_graph = {} THEN Fail(s, "argparser_error")
    ELSE IF a.starting_job = <<>> /\ a.resume_from_jobid = None
    THEN Fail(s, "argparser_error")
    ELSE SetupStartingJobs(
            [s EXCEPT !.available_resources = FillAvailableResources(s.jobs_graph)],
            MaybeSetupResume(a, e, 1, <<>>), a, e, n)

----------------------------------------------------------------------------
(* The workflows checked: a jobs graph, a command line and a backend.      *)

NoArgs ==
    [starting_job |-> <<>>, resume_from_jobid |-> None, max_running_jobs |-> NoMax,
     only_starting_jobs |-> FALSE, failed_outcomes |-> <<>>]

Starting(jobs) == [NoArgs EXCEPT !.starting_job = jobs]

\* a backend with nothing to resume from: outcomes are the outcomes
\* is_finished may report, answers what run_job may return or raise
Backend(outcomes, answers) ==
    [name |-> "mgr", tasks |-> {}, next_tasks |-> <<>>, scheduled |-> <<>>,
     job_cmd |-> <<>>, outcomes |-> outcomes, answers |-> answers]

AnyAnswer == {Scheduled, None, Raised}

One == Fraction(1, 1)

\* A -> B -> C
ChainGraph ==
    [A |-> [command |-> "a", on_finish |-> [default |-> <<"B">>]],
     B |-> [command |-> "b", on_finish |-> [default |-> <<"C">>]],
     C |-> [command |-> "c"]]

\* A -> {B, C} -> D, D waits for B and C
DiamondGraph ==
    [A |-> [command |-> "a", on_finish |-> [default |-> <<"B", "C">>]],
     B |-> [command |-> "b", on_finish |-> [default |-> <<"D">>]],
     C |-> [command |-> "c", on_finish |-> [default |-> <<"D">>]],
     D |-> [command |-> "d", wait_for |-> <<"B", "C">>]]

\* X and Y both need the one cpu
ContentionGraph ==
    [X |-> [command |-> "x", required_resources |-> <<[cpu |-> One]>>],
     Y |-> [command |-> "y", required_resources |-> <<[cpu |-> One]>>]]

\* A retries itself when it fails
RetryGraph ==
    [A |-> [command |-> "a", init_args |-> <<"--first">>,
            retry_args |-> <<"--again">>, retries |-> 2,
            on_finish |-> [failed |-> <<"retry">>]]]

\* A retries itself when it fails, with a budget of k retries
RetryGraphOf(k) == [RetryGraph EXCEPT !.A.retries = k]

\* P fans out, Q follows it whatever its outcome
FanoutGraph ==
    [P |-> [command |-> "p", parallel_arg |-> <<"--shard=", "%d">>,
            required_resources |-> <<[cpu |-> One]>>,
            on_finish |-> [default |-> <<"Q">>, failed |-> <<"Q">>]],
     Q |-> [command |-> "q", required_resources |-> <<[cpu |-> One]>>]]

\* P fans out, Q follows its success, a failed unit is retried once
FanoutRetryGraph ==
    [P |-> [command |-> "p", parallel_arg |-> <<"--shard=", "%d">>, retries |-> 1,
            on_finish |-> [default |-> <<"Q">>, failed |-> <<"retry">>]],
     Q |-> [command |-> "q"]]

\* P fans out, Q follows its success
FanoutPlainGraph ==
    [P |-> [command |-> "p", parallel_arg |-> <<"--shard=", "%d">>,
            on_finish |-> [default |-> <<"Q">>]],
     Q |-> [command |-> "q"]]

\* P and Q both fan out, Q follows P
ExpandedSuccessorGraph ==
    [P |-> [command |-> "p", parallel_arg |-> <<"--p=", "%d">>,
            on_finish |-> [default |-> <<"Q">>]],
     Q |-> [command |-> "q", parallel_arg |-> <<"--q=", "%d">>]]

\* M and N wait for Z, which no graph declares
StalemateGraph ==
    [M |-> [command |-> "m", wait_for |-> <<"Z">>],
     N |-> [command |-> "n", wait_for |-> <<"Z">>]]

\* two fan-out families that wait for the undeclared Z
FamiliesGraph ==
    [P |-> [command |-> "p", parallel_arg |-> <<"--p=", "%d">>, wait_for |-> <<"Z">>],
     Q |-> [command |-> "q", parallel_arg |-> <<"--q=", "%d">>, wait_for |-> <<"Z">>]]

\* a fan-out family and a plain job that wait for the undeclared Z
FamilyAndJobGraph ==
    [P |-> [command |-> "p", parallel_arg |-> <<"--p=", "%d">>, wait_for |-> <<"Z">>],
     Q |-> [command |-> "q", wait_for |-> <<"Z">>]]

\* U and V wait for each other
CycleGraph ==
    [U |-> [command |-> "u", wait_for |-> <<"V">>],
     V |-> [command |-> "v", wait_for |-> <<"U">>]]

\* U and V wait for each other and follow A
LateCycleGraph ==
    [A |-> [command |-> "a", on_finish |-> [default |-> <<"U", "V">>]],
     U |-> [command |-> "u", wait_for |-> <<"V">>],
     V |-> [command |-> "v", wait_for |-> <<"U">>]]

\* A names B as its successor, and both are starting jobs
SuccessorGraph ==
    [A |-> [command |-> "a", on_finish |-> [default |-> <<"B">>]],
     B |-> [command |-> "b", required_resources |-> <<[cpu |-> One]>>]]

\* A names B as its successor; B and C need one cpu each, of the three
\* that D asks for
SharedSuccessorGraph ==
    [A |-> [command |-> "a", on_finish |-> [default |-> <<"B">>]],
     B |-> [command |-> "b", required_resources |-> <<[cpu |-> One]>>],
     C |-> [command |-> "c", required_resources |-> <<[cpu |-> One]>>],
     D |-> [command |-> "d", required_resources |-> <<[cpu |-> Fraction(3, 1)]>>]]

\* U needs the mem; V and X need the cpu and the mem, or else the gpu; Y
\* needs nothing
AlternativesGraph ==
    [U |-> [command |-> "u", required_resources |-> <<[mem |-> One]>>],
     V |-> [command |-> "v",
            required_resources |-> <<[cpu |-> One, mem |-> One], [gpu |-> One]>>],
     X |-> [command |-> "x",
            required_resources |-> <<[cpu |-> One, mem |-> One], [gpu |-> One]>>],
     Y |-> [command |-> "y"]]

\* A may start after 1 second and waits for the undeclared Z; B may start
\* after 2 seconds
WaitTimeGraph ==
    [A |-> [command |-> "a", wait_time |-> 1, wait_for |-> <<"Z">>],
     B |-> [command |-> "b", wait_time |-> 2]]

\* B may start after 1 second, once A has finished
WaitTimeChainGraph ==
    [A |-> [command |-> "a", on_finish |-> [default |-> <<"B">>]],
     B |-> [command |-> "b", wait_time |-> 1]]

\* A -> {B, C}, B -> D, built from task objects
TreeGraph ==
    [A |-> [command |-> "a", on_finish |-> [default |-> <<"B", "C">>]],
     B |-> [command |-> "b", on_finish |-> [default |-> <<"D">>]],
     C |-> [command |-> "c"],
     D |-> [command |-> "d"]]

\* Task.get_next_tasks() of the tasks of TreeGraph
TreeNextTasks == [A |-> <<"B", "C">>, B |-> <<"D">>, C |-> <<>>, D |-> <<>>]

Workflow(name, graph, a, e, n) ==
    [name |-> name, jobs_graph |-> graph, args |-> a, env |-> e, parallelization |-> n]

PlainWorkflows ==
    {Workflow("chain", ChainGraph, Starting(<<"A">>), Backend({"finished"}, {Scheduled}), 0),
     Workflow("diamond", DiamondGraph, Starting(<<"A">>),
              Backend({"finished"}, {Scheduled}), 0),
     Workflow("contention", ContentionGraph, Starting(<<"X", "Y">>),
              Backend({"finished", "failed"}, AnyAnswer), 0),
     Workflow("retry", RetryGraph, Starting(<<"A">>), Backend({"failed"}, {Scheduled}), 0),
     Workflow("fanout", FanoutGraph, Starting(<<"P">>),
              Backend({"finished", "failed"}, {Scheduled}), 2),
     Workflow("fanout3", FanoutGraph, Starting(<<"P">>),
              Backend({"finished"}, AnyAnswer), 3),
     Workflow("fanout_plain", FanoutPlainGraph, Starting(<<"P">>),
              Backend({"finished"}, {Scheduled}), 2),
     Workflow("fanout_retry", FanoutRetryGraph, Starting(<<"P">>),
              Backend({"finished", "failed"}, {Scheduled}), 2),
     Workflow("stalemate", StalemateGraph, Starting(<<"M", "N">>),
              Backend({"finished"}, AnyAnswer), 0),
     Workflow("families", FamiliesGraph, Starting(<<"P", "Q">>),
              Backend({"finished"}, {Scheduled}), 2),
     Workflow("family_and_job", FamilyAndJobGraph, Starting(<<"P", "Q">>),
              Backend({"finished"}, {Scheduled}), 2),
     Workflow("cycle", CycleGraph, Starting(<<"U", "V">>),
              Backend({"finished"}, {Scheduled}), 0),
     Workflow("late_cycle", LateCycleGraph, Starting(<<"A">>),
              Backend({"finished"}, {Scheduled}), 0),
     Workflow("successor", SuccessorGraph, Starting(<<"A", "B">>),
              Backend({"finished"}, AnyAnswer), 0),
     Workflow("shared_successor", SharedSuccessorGraph, Starting(<<"A", "B", "C">>),
              Backend({"finished"}, {Scheduled, Raised}), 0),
     Workflow("expanded_successor", ExpandedSuccessorGraph, Starting(<<"Q", "P">>),
              Backend({"finished"}, {Scheduled}), 2),
     Workflow("alternatives", AlternativesGraph, Starting(<<"U", "V", "X", "Y">>),
              Backend({"finished"}, {Scheduled}), 0),
     Workflow("alternatives_vx", AlternativesGraph, Starting(<<"V", "X">>),
              Backend({"finished"}, {Scheduled}), 0),
     Workflow("wait_time", WaitTimeGraph, Starting(<<"A", "B">>),
              Backend({"finished"}, {Scheduled}), 0),
     Workflow("wait_time_chain", WaitTimeChainGraph, Starting(<<"A">>),
              Backend({"finished"}, {Scheduled}), 0)}

\* the retry budgets: every run of A fails
RetryWorkflows ==
    {Workflow("retries", RetryGraphOf(k), Starting(<<"A">>),
              Backend({"failed"}, {Scheduled}), 0) : k \in 0..MaxRetries}

\* --max-running-jobs cap
Capped(a, cap) == [a EXCEPT !.max_running_jobs = cap]

\* workflows that could run more jobs at once than the cap allows
CappedWorkflows ==
    UNION {{Workflow("capped_diamond", DiamondGraph, Capped(Starting(<<"A">>), cap),
                     Backend({"finished"}, {Scheduled}), 0),
            Workflow("capped_families", FamiliesGraph,
                     Capped(Starting(<<"P", "Q">>), cap),
                     Backend({"finished"}, {Scheduled}), 2),
            Workflow("capped_fanout", FanoutPlainGraph, Capped(Starting(<<"P">>), cap),
                     Backend({"finished"}, {Scheduled}), 3)} : cap \in 1..MaxCap}

\* --only-starting-jobs
OnlyStarting(a) == [a EXCEPT !.only_starting_jobs = TRUE]

\* workflows whose starting jobs have successors or retries that
\* --only-starting-jobs leaves out
OnlyStartingWorkflows ==
    {Workflow("only_chain", ChainGraph, OnlyStarting(Starting(<<"A">>)),
              Backend({"finished", "failed"}, {Scheduled}), 0),
     Workflow("only_diamond", DiamondGraph, OnlyStarting(Starting(<<"B", "C">>)),
              Backend({"finished"}, {Scheduled}), 0),
     Workflow("only_retry", RetryGraph, OnlyStarting(Starting(<<"A">>)),
              Backend({"failed"}, {Scheduled}), 0),
     Workflow("only_fanout", FanoutRetryGraph, OnlyStarting(Starting(<<"P">>)),
              Backend({"finished", "failed"}, {Scheduled}), 2)}

\* the child jobs the backend lists for the resumed manager job, for a set
\* of tasks that ran
ScheduledSpecs(keys) == [i \in 1..Len(keys) |-> <<"mgr", keys[i]>>]

ResumeBackend(ran, job_cmd) ==
    [name |-> "mgr", tasks |-> DOMAIN TreeGraph, next_tasks |-> TreeNextTasks,
     scheduled |-> ScheduledSpecs(Sorted(ran)), job_cmd |-> job_cmd,
     outcomes |-> {"finished"}, answers |-> {Scheduled}]

Resuming(jobs) == [Starting(jobs) EXCEPT !.resume_from_jobid = "R"]

\* the options a recorded command line is made of
Options ==
    {<<"--starting-job", "=", "A">>, <<"--starting-job", "=", "B">>,
     <<"--starting-job">>, <<"A">>, <<"B">>, <<"--comment", "=", "x">>}

CommandLines == UNION {[1..len -> Options] : len \in 0..MaxCmdLen}

ResumeWorkflows ==
    {Workflow("resume", TreeGraph, Resuming(jobs), ResumeBackend(ran, job_cmd), 0) :
        jobs \in {<<>>, <<"B", "C">>},
        ran \in SUBSET (DOMAIN TreeGraph),
        job_cmd \in {<<<<"--starting-job", "=", "A">>>>}}
    \cup
    {Workflow("resume_cmd", TreeGraph, Resuming(<<>>), ResumeBackend(ran, job_cmd), 0) :
        ran \in {{}, {"A"}, {"A", "B", "C", "D"}},
        job_cmd \in CommandLines}

Workflows ==
    PlainWorkflows \cup RetryWorkflows \cup CappedWorkflows
    \cup OnlyStartingWorkflows \cup ResumeWorkflows

----------------------------------------------------------------------------
(* The state machine.                                                      *)

EmptySnapshot ==
    [pending_jobs |-> <<>>, running_jobs |-> <<>>,
     available_resources |-> <<>>, acquired_resources |-> <<>>]

NoHandler ==
    [op |-> "none", ret |-> TRUE, ran_pending |-> FALSE, started |-> <<>>,
     passB |-> FALSE, afterCheck |-> EmptySnapshot, afterA |-> EmptySnapshot,
     before |-> EmptySnapshot, t |-> 0, nsub |-> 0, candidates |-> <<>>]

\* the state after __init__: nothing pending, nothing running, no resources
Init ==
    /\ \E w \in Workflows :
        /\ jobs_graph = w.jobs_graph
        /\ declared = w.jobs_graph
        /\ args = w.args
        /\ env = w.env
        /\ parallelization = w.parallelization
    /\ pc = "init"
    /\ pending_jobs = <<>>
    /\ running_jobs = <<>>
    /\ available_resources = <<>>
    /\ acquired_resources = <<>>
    /\ now = 0
    /\ err = "none"
    /\ errmsg = <<>>
    /\ submitted = <<>>
    /\ finished = {}
    /\ last = NoHandler
    /\ tick = [n |-> 0, saw_finished |-> FALSE]

\* the handler left state s
Becomes(s) ==
    /\ jobs_graph' = s.jobs_graph
    /\ pending_jobs' = s.pending_jobs
    /\ running_jobs' = s.running_jobs
    /\ available_resources' = s.available_resources
    /\ acquired_resources' = s.acquired_resources
    /\ err' = s.err
    /\ errmsg' = s.errmsg
    /\ submitted' = s.submitted
    /\ finished' = s.finished

OnStartDone(s) ==
    /\ Becomes(s)
    /\ pc' = IF s.err = "none" THEN "loop" ELSE "error"

\* on_start()
OnStart ==
    /\ pc = "init"
    /\ OnStartDone(OnStartResult(Cur, args, env, parallelization))
    /\ last' = [NoHandler EXCEPT
                  !.op = "on_start",
                  !.candidates = StartingCandidates(args, env)]
    /\ UNCHANGED <<args, env, declared, parallelization, now, tick>>

\* what workflow_loop() did: s1 is the state check_running_jobs left, r the
\* state at the end and what was returned
LoopRecord(s1, r, t) ==
    [NoHandler EXCEPT
        !.op = "workflow_loop",
        !.ret = r.ret,
        !.ran_pending = r.ran_pending,
        !.started = r.s.started,
        !.passB = r.s.passB,
        !.afterCheck = Snapshot(s1),
        !.afterA = IF r.ran_pending /\ r.s.afterA # <<>>
                   THEN r.s.afterA ELSE EmptySnapshot,
        !.before = IF r.s.before # <<>> THEN r.s.before ELSE EmptySnapshot,
        !.t = t,
        !.nsub = Len(s1.submitted)]

WorkflowLoopDone(s1, r) ==
    /\ Becomes(r.s)
    /\ pc' = IF r.s.err # "none" THEN "error"
             ELSE IF r.ret THEN "loop" ELSE "done"
    /\ last' = LoopRecord(s1, r, now)

\* lines 249-253 of workflow_loop(), run_job answering what answers holds
AfterCheck(s1) ==
    \E answers \in [DOMAIN s1.pending_jobs -> env.answers] :
        WorkflowLoopDone(s1,
            WorkflowLoopResult(s1, answers, args.max_running_jobs, now))

\* one call of workflow_loop() by the driver, is_finished answering what
\* outcomes holds
WorkflowLoop ==
    /\ pc = "loop"
    /\ \E outcomes \in [RunningKeys(Cur) -> env.outcomes \cup {None}] :
        /\ AfterCheck(CheckRunningJobs(Cur, running_jobs, 1, outcomes,
                        args.only_starting_jobs,
                        base_failed_outcomes \cup ToSet(args.failed_outcomes),
                        parallelization))
        /\ tick' = [n |-> 1 - tick.n,
                    saw_finished |-> \E j \in RunningKeys(Cur) : outcomes[j] # None]
    /\ UNCHANGED <<args, env, declared, parallelization, now>>

\* a second passes between two calls of workflow_loop(); the clock is read
\* only for jobs that have a wait_time
ClockTick ==
    /\ pc = "loop"
    /\ now < MaxTime
    /\ \E j \in DOMAIN jobs_graph : "wait_time" \in DOMAIN jobs_graph[j]
    /\ now' = now + 1
    /\ UNCHANGED <<pc, args, env, jobs_graph, declared, pending_jobs, running_jobs,
                   available_resources, acquired_resources, parallelization,
                   err, errmsg, submitted, finished, last, tick>>

Next == OnStart \/ WorkflowLoop \/ ClockTick

Spec == Init /\ [][Next]_vars

\* the driver runs on_start(): the steps of OnStart, which is enabled
\* exactly when pc = "init"
DriverStarts == pc = "init" /\ pc' \in {"loop", "error"}

\* the driver calls workflow_loop() again: the steps of WorkflowLoop,
\* which is enabled exactly when pc = "loop"
DriverCalls ==
    /\ pc = "loop"
    /\ tick' \in {[n |-> 1 - tick.n, saw_finished |-> b] : b \in BOOLEAN}

\* is_finished answers an outcome for a running job: the steps of
\* WorkflowLoop that see a job finished, enabled whenever a job is running
BackendFinishes ==
    /\ pc = "loop"
    /\ running_jobs # <<>>
    /\ tick' = [n |-> 1 - tick.n, saw_finished |-> TRUE]

\* the driver starts the manager and keeps calling workflow_loop() while it
\* returns True, and the backend lets every job it runs finish at some point
FairSpec ==
    /\ Spec
    /\ WF_pc(DriverStarts)
    /\ WF_tick(DriverCalls)
    /\ WF_tick(BackendFinishes)

----------------------------------------------------------------------------
(* Properties.                                                             *)

\* on_start() has run
Started_up == pc # "init"

\* the latest handler was a workflow_loop() that got through check_running_jobs
Ticked == last.op = "workflow_loop"

\* the submissions of the latest workflow_loop()
LastSubmissions == {i \in 1..Len(submitted) : Ticked /\ i > last.nsub}

\* C1: between the calls of workflow_loop(), no job key is both in the
\* pending jobs and in the running jobs
C1_PendingRunningDisjoint ==
    DOMAIN pending_jobs \cap RunningKeys(Cur) = {}

\* the sum of the amounts of a list of acquired <<job, amount>> entries
RECURSIVE SumAcquired(_)
SumAcquired(list) ==
    IF list = <<>> THEN <<0, 1>> ELSE FAdd(Head(list)[2], SumAcquired(Tail(list)))

\* the amounts of resource res that the resource sets of the declared tasks ask for
DeclaredAmounts(res) == {a[2] : a \in {b \in Asks(declared) : b[1] = res}}

\* the resources the declared tasks name
DeclaredResources == {a[1] : a \in Asks(declared)}

\* C2: for every resource, what is available plus what the acquired entries
\* hold is the initial capacity: the largest amount of it that a resource set
\* of a declared task asks for
C2_ResourceConservation ==
    Started_up /\ err # "argparser_error" =>
        \A res \in {r \in DeclaredResources : DeclaredAmounts(r) # {}} :
            /\ res \in DOMAIN available_resources
            /\ FAdd(available_resources[res],
                    SumAcquired(Get(acquired_resources, res, <<>>)))
                 \in DeclaredAmounts(res)
            /\ \A a \in DeclaredAmounts(res) :
                 ~FLess(FAdd(available_resources[res],
                             SumAcquired(Get(acquired_resources, res, <<>>))), a)

\* C2 witness: units of a fanned-out task hold thirds of the cpu while one
\* of them has finished and given its third back
C2_Witness ==
    /\ "cpu" \in DOMAIN acquired_resources
    /\ Len(acquired_resources["cpu"]) = 2
    /\ \A i \in 1..2 : acquired_resources["cpu"][i][2] = Fraction(1, 3)
    /\ available_resources["cpu"] = Fraction(1, 3)
    /\ finished # {}

\* C3: a job for which run_job returned None in the latest workflow_loop()
\* is still pending and is not in the running jobs
C3_NoneStaysPending ==
    \A i \in LastSubmissions :
        submitted[i].jobid = None =>
            /\ submitted[i].job \in DOMAIN pending_jobs
            /\ submitted[i].job \notin RunningKeys(Cur)

\* the jobs the second mode of the latest run_pending_jobs() started, in order
BStarts == SelectSeq(last.started, LAMBDA e : e[2] = "B")

\* the latest workflow_loop() called run_pending_jobs(), which met no
\* exception other than the dependency-cycle error
RanPending == Ticked /\ last.ran_pending /\ err \in {"none", "dependency_cycle"}

\* every pending job of the snapshot waits for a job that is pending too
WaitOnEachOther(snap) ==
    /\ DOMAIN snap.pending_jobs # {}
    /\ \A j \in DOMAIN snap.pending_jobs :
        /\ j \in DOMAIN jobs_graph
        /\ snap.pending_jobs[j].wait_for \cap DOMAIN snap.pending_jobs # {}

\* no pending job of the snapshot has a wait_time
NoWaitTimes(snap) ==
    \A j \in DOMAIN snap.pending_jobs : snap.pending_jobs[j].wait_time = NoWaitTime

\* the dependency-cycle message lists every pending job with its wait_for
ListsEveryPendingJob ==
    /\ {errmsg[i][1] : i \in 1..Len(errmsg)} = DOMAIN pending_jobs
    /\ \A i \in 1..Len(errmsg) :
        /\ ToSet(errmsg[i][2]) = pending_jobs[errmsg[i][1]].wait_for
        /\ Len(errmsg[i][2]) = Cardinality(pending_jobs[errmsg[i][1]].wait_for)

\* C4: when run_pending_jobs() is entered with pending jobs that are declared
\* and all wait for each other, nothing running and no wait_time, it submits
\* no job and raises the dependency-cycle error, whose message lists every
\* pending job with its outstanding wait_for
C4_CycleDetected ==
    /\ RanPending
    /\ WaitOnEachOther(last.afterCheck)
    /\ Len(last.afterCheck.running_jobs) = 0
    /\ NoWaitTimes(last.afterCheck)
    => /\ err = "dependency_cycle"
       /\ Len(submitted) = last.nsub
       /\ pending_jobs = last.afterCheck.pending_jobs
       /\ ListsEveryPendingJob

\* C4 witness: U and V, which wait for each other, went pending when A
\* finished, and the cycle error names both
C4_Witness ==
    /\ Ticked
    /\ WaitOnEachOther(last.afterCheck)
    /\ "A" \in finished
    /\ err = "dependency_cycle"
    /\ errmsg = <<<<"U", <<"V">>>>, <<"V", <<"U">>>>>>

\* C5: a run_pending_jobs() that, after its normal mode, has pending jobs,
\* nothing running and no pending job whose wait_time is still in the future
\* enters the second mode, and so starts a job or raises the dependency-cycle
\* error
C5_NoSilentStall ==
    /\ RanPending
    /\ DOMAIN last.afterA.pending_jobs # {}
    /\ Len(last.afterA.running_jobs) = 0
    /\ \A j \in DOMAIN last.afterA.pending_jobs : ~MustWaitTime(last.afterA, j, last.t)
    => /\ last.passB
       /\ BStarts # <<>> \/ err = "dependency_cycle"

\* conf.get('origin') of a job the second mode looked at
OriginOf(job) == Get(last.afterA.pending_jobs[job], "origin", None)

\* C6: every job the second mode starts after the first one it started has
\* an origin, the origin of that first job
C6_OneFamilyEscapes ==
    Ticked =>
        \A i \in 2..Len(BStarts) :
            /\ OriginOf(BStarts[i][1]) # None
            /\ OriginOf(BStarts[i][1]) = OriginOf(BStarts[1][1])

\* the units of the fanned-out task P
UnitsOfP == {UnitName("P", i) : i \in 0..(parallelization - 1)}

\* P is declared with a parallel_arg and routes to Q on some outcome, Q
\* declares no wait_for, and P is the starting job
Fanned ==
    /\ {"P", "Q"} \subseteq DOMAIN declared
    /\ "parallel_arg" \in DOMAIN declared["P"]
    /\ "wait_for" \notin DOMAIN declared["Q"]
    /\ \E key \in DOMAIN declared["P"].on_finish : InList("Q", declared["P"].on_finish[key])
    /\ args.starting_job = <<"P">>
    /\ parallelization >= 2

\* run_job was called for the job
WasSubmitted(job) == \E i \in 1..Len(submitted) : submitted[i].job = job

\* C7 as stated: once a tick has seen unit 0 of P finish, Q has been
\* submitted, whatever the other units do (P routes every outcome it can
\* have to Q, nothing else holds Q back)
C7_SuccessorAfterUnitZero ==
    declared = FanoutPlainGraph /\ Ticked /\ "P_0" \in finished => WasSubmitted("Q")

\* C7 amended: the successor Q of a fanned-out P is submitted only after
\* every unit of P was seen finished
C7_SuccessorAfterAllUnits ==
    Fanned /\ WasSubmitted("Q") => UnitsOfP \subseteq finished

\* C7 witness: Q was submitted after the three units of P
C7_Witness ==
    /\ Fanned
    /\ parallelization = 3
    /\ WasSubmitted("Q")
    /\ UnitsOfP \subseteq finished

\* C8: no pending job waits for a job that check_running_jobs() has seen
\* finished
C8_NoWaitForFinished ==
    \A j \in DOMAIN pending_jobs : pending_jobs[j].wait_for \cap finished = {}

\* the starting jobs a recorded command line names: X for each option
\* "--starting-job=X" and for each option "--starting-job" followed by "X"
RECURSIVE StartingJobsNamed(_, _)
StartingJobsNamed(job_cmd, idx) ==
    IF idx > Len(job_cmd) THEN <<>>
    ELSE IF job_cmd[idx] = <<"--starting-job">>
    THEN IF idx < Len(job_cmd)
         THEN <<Spell(job_cmd[idx + 1])>> \o StartingJobsNamed(job_cmd, idx + 2)
         ELSE <<>>
    ELSE IF Len(job_cmd[idx]) >= 3 /\ SubSeq(job_cmd[idx], 1, 2) = <<"--starting-job", "=">>
    THEN <<Spell(SubSeq(job_cmd[idx], 3, Len(job_cmd[idx])))>>
         \o StartingJobsNamed(job_cmd, idx + 1)
    ELSE StartingJobsNamed(job_cmd, idx + 1)

\* the program resumes from a manager job
Resumed == pc # "init" /\ args.resume_from_jobid # None

\* the starting set of a resumed run: the starting jobs given, or else the
\* ones the resumed job was started with
StartingSet ==
    IF args.starting_job # <<>> THEN ToSet(args.starting_job)
    ELSE ToSet(StartingJobsNamed(env.job_cmd, 1))

\* the tasks that already ran
RanTasks == {env.scheduled[i][2] : i \in 1..Len(env.scheduled)}

\* the tasks that did not run and are reached from tasks through tasks that ran
RECURSIVE Frontier(_)
Frontier(tasks) ==
    UNION {IF t \in RanTasks THEN Frontier(ToSet(env.next_tasks[t])) ELSE {t} :
              t \in tasks}

\* C9: after the resume setup the pending jobs are the frontier of the
\* starting set, none of them a task that ran; when the frontier is empty
\* the first workflow_loop() returns False and nothing is ever submitted
C9_ResumeFrontier ==
    Resumed =>
        /\ err = "none"
        /\ last.op = "on_start" => DOMAIN pending_jobs = Frontier(StartingSet)
        /\ DOMAIN pending_jobs \cap RanTasks = {} \/ last.op # "on_start"
        /\ Ticked /\ Frontier(StartingSet) = {} => pc = "done" /\ submitted = <<>>

\* C10: the list _get_starting_jobs_from_resumed_job() recovers from the
\* recorded command line is the list of the starting jobs it names
C10_RecoveredStartingJobs ==
    Resumed /\ args.starting_job = <<>> /\ last.op = "on_start" =>
        last.candidates = StartingJobsNamed(env.job_cmd, 1)

\* the positions in the submissions at which run_job was called for the job
SubmissionsOf(job) == {i \in 1..Len(submitted) : submitted[i].job = job}

\* the diamond A -> {B, C} -> D is run from A, with no cap
DiamondRun ==
    /\ declared = DiamondGraph
    /\ args.starting_job = <<"A">>
    /\ args.max_running_jobs = NoMax

\* C11: in the diamond A is submitted first; B and C are submitted, in this
\* order, in the tick that sees A finished; D is not submitted before B and
\* C were both seen finished; D is submitted once
C11_Diamond ==
    DiamondRun =>
        /\ submitted # <<>> => submitted[1].job = "A"
        /\ IF "A" \in finished
           THEN /\ Len(submitted) >= 3
                /\ submitted[2].job = "B"
                /\ submitted[3].job = "C"
           ELSE Len(submitted) <= 1
        /\ WasSubmitted("D") => {"B", "C"} \subseteq finished
        /\ Cardinality(SubmissionsOf("D")) <= 1
        /\ pc = "done" => Cardinality(SubmissionsOf("D")) = 1

\* C11 witness: the diamond is done, D was the fourth and last submission
C11_Witness ==
    /\ DiamondRun
    /\ pc = "done"
    /\ Len(submitted) = 4
    /\ submitted[4].job = "D"
    /\ finished = {"A", "B", "C", "D"}

\* the jobs run_job was called for, in order
SubmittedJobs == [i \in 1..Len(submitted) |-> submitted[i].job]

\* the chain A -> B -> C is run from A
ChainRun ==
    /\ declared = ChainGraph
    /\ args.starting_job = <<"A">>
    /\ ~args.only_starting_jobs

\* workflow_loop() returned False
Completed == pc = "done"

\* the submissions of the chain so far, and its state at completion
ChainInOrder ==
    /\ Len(submitted) <= 3
    /\ \A i \in 1..Len(submitted) : submitted[i].job = <<"A", "B", "C">>[i]
    /\ Completed =>
        /\ SubmittedJobs = <<"A", "B", "C">>
        /\ DOMAIN pending_jobs = {}
        /\ running_jobs = <<>>

\* C12: in the chain, when every job finishes at some point, the
\* submissions are A, B, C in this order and once each, workflow_loop()
\* returns False in the end, and only with nothing pending and nothing running
C12_Chain ==
    /\ [](ChainRun => ChainInOrder)
    /\ ChainRun ~> (ChainRun /\ Completed)

\* C12 witness: the chain is done after A, B and C
C12_Witness ==
    /\ ChainRun
    /\ Completed
    /\ SubmittedJobs = <<"A", "B", "C">>
    /\ finished = {"A", "B", "C"}

\* A, which retries itself, is run against a backend where every run fails
RetryRun ==
    /\ \E k \in 0..MaxRetries : declared = RetryGraphOf(k)
    /\ env.outcomes = {"failed"}
    /\ ~args.only_starting_jobs

\* the retries A was declared with
Budget == declared["A"].retries

\* the submissions of A so far: the first with the init args, the others
\* with the retry flag and the retry args, one retry of the budget spent
\* for each of these
RetriesWithinBudget ==
    /\ Len(submitted) <= Budget + 1
    /\ \A i \in 1..Len(submitted) :
        /\ submitted[i].job = "A"
        /\ submitted[i].retries = (IF i = 1 THEN 0 ELSE 1)
        /\ submitted[i].cmd = (IF i = 1 THEN <<"a", "--first">> ELSE <<"a", "--again">>)
    /\ jobs_graph["A"].retries >= 0
    /\ jobs_graph["A"].retries
         = (IF submitted = <<>> THEN Budget ELSE Budget - (Len(submitted) - 1))
    /\ Completed =>
        /\ Len(submitted) = Budget + 1
        /\ DOMAIN pending_jobs = {}
        /\ running_jobs = <<>>

\* C13: a task A with retries = k whose every run fails is submitted k + 1
\* times, first with the init args and then with the retry flag; the budget
\* goes down by one for each retry and not below 0; after the last failure
\* A is not pending again and workflow_loop() returns False
C13_RetryBudget ==
    /\ [](RetryRun => RetriesWithinBudget)
    /\ RetryRun ~> (RetryRun /\ Completed)

\* C13 witness: with a budget of 2, A was submitted three times and the
\* workflow is done
C13_Witness ==
    /\ RetryRun
    /\ Budget = 2
    /\ Completed
    /\ Len(submitted) = 3
    /\ jobs_graph["A"].retries = 0

\* X and Y, which both need the one cpu, are the starting jobs
ContentionRun == declared = ContentionGraph /\ args.starting_job = <<"X", "Y">>

\* the jobs that hold an amount of the resource
Holders(res) ==
    {acquired_resources[res][i][1] : i \in 1..Len(Get(acquired_resources, res, <<>>))}

\* C14: X and Y, which both need the one cpu, are never running together;
\* the first tick starts X only; Y is started only once X was seen finished
\* and holds no cpu; and no available amount is ever negative
C14_Contention ==
    /\ ContentionRun =>
        /\ ~({"X", "Y"} \subseteq RunningKeys(Cur))
        /\ Ticked /\ finished = {} /\ err = "none" => SubmittedJobs = <<"X">>
        /\ WasSubmitted("Y") => "X" \in finished /\ "X" \notin Holders("cpu")
    /\ \A res \in DOMAIN available_resources :
        ~FLess(available_resources[res], <<0, 1>>)

\* C14 witness: Y runs and holds the cpu that X gave back when it finished
C14_Witness ==
    /\ ContentionRun
    /\ RunningKeys(Cur) = {"Y"}
    /\ finished = {"X"}
    /\ acquired_resources["cpu"] = <<<<"Y", One>>>>
    /\ available_resources["cpu"] = <<0, 1>>

\* C15: with --max-running-jobs N there are never more than N running jobs
C15_MaxRunningJobs ==
    args.max_running_jobs # NoMax => Len(running_jobs) <= args.max_running_jobs

\* C15 witness: the second mode stopped at the cap of 2 and left jobs
\* pending that wait for nothing that is pending
C15_Witness ==
    /\ args.max_running_jobs = 2
    /\ Len(running_jobs) = 2
    /\ last.passB
    /\ Len(BStarts) = 2
    /\ \E j \in DOMAIN pending_jobs :
        pending_jobs[j].wait_for \cap DOMAIN pending_jobs = {}

\* the starting jobs, and the units of those declared with a parallel_arg
StartingKeys ==
    UNION {IF "parallel_arg" \in DOMAIN declared[j]
           THEN {UnitName(j, i) : i \in 0..(parallelization - 1)}
           ELSE {j} : j \in ToSet(args.starting_job) \cap DOMAIN declared}

\* every job submitted is a starting job or a unit of one, submitted once
OnlyStartingJobsRun ==
    \A i \in 1..Len(submitted) :
        /\ submitted[i].job \in StartingKeys
        /\ submitted[i].retries = 0
        /\ \A k \in 1..Len(submitted) : submitted[k].job = submitted[i].job => k = i

\* no call of workflow_loop() makes a job pending
NoJobGoesPending == pc = "loop" => DOMAIN pending_jobs' \subseteq DOMAIN pending_jobs

\* C16: with --only-starting-jobs no completion makes a job pending, be it
\* a successor or a retry, so the jobs submitted are the starting jobs (or
\* their units), each at most once
C16_OnlyStartingJobs ==
    /\ [](args.only_starting_jobs => OnlyStartingJobsRun)
    /\ [][args.only_starting_jobs => NoJobGoesPending]_vars

\* C16 witness: the units of P have finished and the workflow is done with
\* neither a retry nor the successor Q submitted
C16_Witness ==
    /\ args.only_starting_jobs
    /\ declared = FanoutRetryGraph
    /\ Completed
    /\ finished = {"P_0", "P_1"}
    /\ SubmittedJobs = <<"P_0", "P_1">>

\* the latest workflow_loop() ended with run_job raising
SubmitRaised == Ticked /\ err = "submit_raised"

\* the job whose submission raised
RaisedJob == submitted[Len(submitted)].job

\* C17: when run_job raises in an admission, the job is still pending and
\* not running, and what is available and acquired of every resource is
\* what it was before the job's resources were acquired in that call
C17_RaiseLeavesStateAsBefore ==
    SubmitRaised =>
        /\ RaisedJob \in DOMAIN pending_jobs
        /\ RaisedJob \notin RunningKeys(Cur)
        /\ available_resources = last.before.available_resources
        /\ \A res \in DOMAIN available_resources :
            Get(acquired_resources, res, <<>>)
                = Get(last.before.acquired_resources, res, <<>>)

\* the wait_time of a job, NoWaitTime when it has none
WaitTimeOf(job) == Get(jobs_graph[job], "wait_time", NoWaitTime)

\* C18: a job with a wait_time is submitted, by either mode, no earlier
\* than that many seconds after the start, and no dependency-cycle error is
\* raised while a pending job has a wait_time
C18_WaitTimeLowerBound ==
    /\ \A i \in LastSubmissions :
        WaitTimeOf(submitted[i].job) # NoWaitTime =>
            last.t >= WaitTimeOf(submitted[i].job)
    /\ err = "dependency_cycle" => NoWaitTimes(Cur)

\* C18 witness: B, which has a wait_time of 2, was submitted by a call made
\* 2 seconds after the start, while A, whose wait_time has elapsed, is
\* still pending
C18_Witness ==
    /\ declared = WaitTimeGraph
    /\ \E i \in LastSubmissions : submitted[i].job = "B"
    /\ last.t = 2
    /\ "A" \in DOMAIN pending_jobs
    /\ err = "none"

\* the units of a fanned-out task
UnitsOf(job) == {UnitName(job, i) : i \in 0..(parallelization - 1)}

\* Q was expanded into its units before P, which routes to Q, is expanded
ExpandedSuccessorRun ==
    /\ Started_up
    /\ declared = ExpandedSuccessorGraph
    /\ args.starting_job = <<"Q", "P">>

\* the job waits for the other one, in the graph and as a pending job
WaitsForInBoth(job, other) ==
    /\ job \in DOMAIN jobs_graph
    /\ InList(other, Get(jobs_graph[job], "wait_for", <<>>))
    /\ job \in DOMAIN pending_jobs
    /\ other \in pending_jobs[job].wait_for

\* C19: when P is expanded after its successor Q was, the expansion ends
\* without error, every unit of P but unit 0 is in the wait_for of every
\* unit of Q, and no unit of P waits for a unit of P
C19_ExpandedSuccessor ==
    ExpandedSuccessorRun =>
        /\ err = "none"
        /\ \A q \in UnitsOf("Q") :
            \A p \in UnitsOf("P") \ {UnitName("P", 0)} : WaitsForInBoth(q, p)
        /\ \A p \in UnitsOf("P") \cap DOMAIN pending_jobs :
            pending_jobs[p].wait_for \cap UnitsOf("P") = {}

\* every amount of the resource set is available now
FitsNow(resources) ==
    \A res \in DOMAIN resources :
        ~FLess(available_resources[res], resources[res])

\* the resource sets of the job that fit now, by their position
FittingSets(job) ==
    {k \in 1..Len(RequiredResources(jobs_graph[job])) :
        FitsNow(RequiredResources(jobs_graph[job])[k])}

\* the ledger of state s is the current one
LedgerUnchanged(s) ==
    /\ s.available_resources = available_resources
    /\ s.acquired_resources = acquired_resources

\* the ledger of state s is the current one with the resource set taken
\* for the job: its amounts subtracted, one entry appended for each
SetTaken(s, job, resources) ==
    /\ DOMAIN s.available_resources = DOMAIN available_resources
    /\ \A res \in DOMAIN available_resources :
        /\ s.available_resources[res]
             = (IF res \in DOMAIN resources
                THEN FSub(available_resources[res], resources[res])
                ELSE available_resources[res])
        /\ Get(s.acquired_resources, res, <<>>)
             = (IF res \in DOMAIN resources
                THEN Append(Get(acquired_resources, res, <<>>), <<job, resources[res]>>)
                ELSE Get(acquired_resources, res, <<>>))

\* r is what _try_acquire_resources(job) has to answer and leave now
AcquiredAsDeclared(job, r, fitting) ==
    IF RequiredResources(jobs_graph[job]) = <<>> THEN r.ok /\ LedgerUnchanged(r.s)
    ELSE IF fitting = {} THEN ~r.ok /\ LedgerUnchanged(r.s)
    ELSE /\ r.ok
         /\ \E k \in fitting :
             /\ \A o \in fitting : k <= o
             /\ SetTaken(r.s, job, RequiredResources(jobs_graph[job])[k])

\* C20: in every state the program reaches and for every job of the graph,
\* _try_acquire_resources takes the first resource set, in declared order,
\* that is available in whole, and takes exactly it; when no set fits it
\* fails and changes nothing; without resource sets it succeeds and changes
\* nothing
C20_AcquireFirstFittingSet ==
    Started_up /\ err = "none" =>
        \A job \in DOMAIN jobs_graph :
            \A r \in {TryAcquireResources(Cur, job)} :
                AcquiredAsDeclared(job, r, FittingSets(job))

\* C20 witness: V holds the gpu, its second set, because U holds the mem of
\* its first set, of which the cpu is untouched; X, for which no set fits,
\* is pending, and Y, which needs nothing, runs
C20_Witness ==
    /\ declared = AlternativesGraph
    /\ RunningKeys(Cur) = {"U", "V", "Y"}
    /\ DOMAIN pending_jobs = {"X"}
    /\ acquired_resources["gpu"] = <<<<"V", One>>>>
    /\ acquired_resources["mem"] = <<<<"U", One>>>>
    /\ available_resources["cpu"] = One
    /\ Get(acquired_resources, "cpu", <<>>) = <<>>

\* the entries of the acquired list of resource res that are tagged with job
EntriesOf(res, job) ==
    {i \in 1..Len(Get(acquired_resources, res, <<>>)) :
        acquired_resources[res][i][1] = job}

\* the initial capacity of resource res: the largest amount a declared task asks
InitialCapacity(res) ==
    CHOOSE a \in DeclaredAmounts(res) : \A b \in DeclaredAmounts(res) : ~FLess(a, b)

\* C21: between the calls of workflow_loop(), every acquired entry is tagged
\* with a job that is running, a running job holds at most one entry of each
\* resource, and when no job is running every resource is available at its
\* initial capacity
C21_NoResourceLeak ==
    Started_up /\ err = "none" =>
        /\ \A res \in DOMAIN acquired_resources :
            /\ Holders(res) \subseteq RunningKeys(Cur)
            /\ \A job \in RunningKeys(Cur) : Cardinality(EntriesOf(res, job)) <= 1
        /\ running_jobs = <<>> =>
            \A res \in {r \in DeclaredResources : DeclaredAmounts(r) # {}} :
                available_resources[res] = InitialCapacity(res)

====
